---- MODULE Spec2Model ----
(***************************************************************************)
(* tinygraph-ts: the Graph engine (registry, transition table, context     *)
(* patching, step/run loop) as a state machine.                            *)
(*                                                                         *)
(* An async method is split at its awaits: everything a method does        *)
(* between two awaits is one action.  step() is StepCall (lines 137-144,   *)
(* up to the await of the node) followed by NodeSettles (lines 146-183);   *)
(* run() is RunCall, then NodeSettles and RunLoop alternating.  Await is    *)
(* the caller resuming on the settled promise.                             *)
(***************************************************************************)
EXTENDS Integers, FiniteSets, Sequences, TLC

VARIABLES
    context,      \* Graph._context
    currentNode,  \* Graph._currentNode
    transitions,  \* Graph._transitions
    nodes,        \* Graph._nodes
    calls,        \* the step()/run() calls made on the graph, one record per caller
    threw,        \* whether the last operation on the graph threw synchronously
    hist,         \* what the builder has been asked so far (see NoHist)
    probe         \* one direct call of applyPatch and what it did (see NoProbe)

vars == <<context, currentNode, transitions, nodes, calls, threw, hist, probe>>

----------------------------------------------------------------------------
(* Bounds of the model *)

\* context values are 1..NumVals
NumVals == 2
\* node instances are 1..NumInst
NumInst == 1
\* edge() is called until the table holds MaxEdges distinct edges
MaxEdges == 2

----------------------------------------------------------------------------
(* Values *)

\* names given to node(): the registry's keys
RegNames == {"A", "B"}
\* names an edge may lead to and a node may return: "" is the falsy string
DestNames == {"A", "B", ""}
Keys == {"x", "y"}
Vals == 1..NumVals
Insts == 1..NumInst
\* `undefined` where a Node<T> is expected
NoNode == 0
\* callers; sequential use has one
CallIds == {1, 2}
SeqCalls == {1}

\* Ctx<T>: an object with some of the keys
Ctxs == UNION {[D -> Vals] : D \in SUBSET Keys}
EmptyCtx == [k \in {} |-> 1]

\* the function patches the model passes around: "bump" reads x from the
\* context it is given and returns {x: next value}; "boom" throws
FnNames == {"bump", "boom"}

NoPatch == [kind |-> "none", map |-> EmptyCtx, fn |-> ""]
StaticPatch(m) == [kind |-> "static", map |-> m, fn |-> ""]
FnPatch(f) == [kind |-> "fn", map |-> EmptyCtx, fn |-> f]
\* the objects {x: v} and {y: 1}
XMap(v) == [k \in {"x"} |-> v]
YMap == [k \in {"y"} |-> 1]

\* PatchFn<T> applied to a context
FnApply(f, ctx) ==
    IF f = "bump"
    THEN [k \in {"x"} |-> IF "x" \in DOMAIN ctx THEN (ctx["x"] % NumVals) + 1 ELSE 1]
    ELSE EmptyCtx
FnThrows(f) == f = "boom"

\* {...a, ...b}
Spread(a, b) == [k \in DOMAIN a \cup DOMAIN b |-> IF k \in DOMAIN b THEN b[k] ELSE a[k]]

\* the partial mapping a patch evaluates to on a context
PatchMap(ctx, patch) ==
    CASE patch.kind = "none" -> EmptyCtx
      [] patch.kind = "fn" -> FnApply(patch.fn, ctx)
      [] OTHER -> patch.map

\* applyPatch mutated: the spreads are swapped, the context's values win
applyPatchContextWins(ctx, patch) ==
    IF patch.kind = "none" THEN ctx
    ELSE IF patch.kind = "fn" THEN Spread(FnApply(patch.fn, ctx), ctx)
    ELSE Spread(patch.map, ctx)

\* applyPatch mutated: the keys of the context are not carried over
applyPatchNoSpread(ctx, patch) ==
    IF patch.kind = "none" THEN ctx
    ELSE IF patch.kind = "fn" THEN FnApply(patch.fn, ctx)
    ELSE patch.map

\* Graph.applyPatch, when it returns
applyPatch(ctx, patch) ==
    IF patch.kind = "none" THEN ctx
    ELSE IF patch.kind = "fn" THEN Spread(ctx, FnApply(patch.fn, ctx))
    ELSE Spread(ctx, patch.map)

\* Graph.applyPatch throws exactly when the function patch it calls throws
applyPatchThrows(ctx, patch) == patch.kind = "fn" /\ FnThrows(patch.fn)

\* applyPatch mutated: the function patch is invoked for its keys and again
\* for the merge
applyPatchFnArgsTwice(ctx, patch) == IF patch.kind = "fn" THEN <<ctx, ctx>> ELSE <<>>

\* the contexts Graph.applyPatch invokes the function patch with, in order:
\* line 53 is the only call, made with the context applyPatch was given
applyPatchFnArgs(ctx, patch) == IF patch.kind = "fn" THEN <<ctx>> ELSE <<>>

\* the context object applyPatch was given, as the call leaves it: the result
\* is built by spreading into a new object literal, nothing is assigned
applyPatchArg(ctx, patch) == ctx

\* _currentNode: undefined, or {node, key}
Undefined == [defined |-> FALSE, key |-> "", node |-> NoNode]
Current(k, n) == [defined |-> TRUE, key |-> k, node |-> n]

\* Map.get on _nodes and on _transitions (undefined is NoNode / the empty set)
NodesGet(ns, k) == IF k \in DOMAIN ns THEN ns[k] ELSE NoNode
TransGet(ts, k) == IF k \in DOMAIN ts THEN ts[k] ELSE {}

\* the availableTransitions getter, as step uses it: Array.from(... || [])
availableTransitions(ts, cur) == TransGet(ts, cur.key)

\* the argument mutated: the getter's value is passed on as it is
transitionsArgRaw(ts, cur) ==
    [missing |-> cur.key \notin DOMAIN ts, names |-> availableTransitions(ts, cur)]

\* the second argument of next() (line 143): an array of the getter's names,
\* the empty array when the getter yields undefined
transitionsArg(ts, cur) ==
    [missing |-> FALSE, names |-> availableTransitions(ts, cur)]

----------------------------------------------------------------------------
(* Builder operations *)

\* edge mutated: the set of l is created anew on every call
edgeOverwrite(ts, l, r) ==
    [k \in DOMAIN ts \cup {l} |-> IF k = l THEN {r} ELSE ts[k]]

\* Graph.edge: the transition table after edge(l, r); a Set holds a name once
edge(ts, l, r) ==
    [k \in DOMAIN ts \cup {l} |-> IF k = l THEN TransGet(ts, l) \cup {r} ELSE ts[k]]

\* node mutated: a name that is registered keeps its instance
nodeKeepFirst(ns, key, toAdd) ==
    [k \in DOMAIN ns \cup {key} |-> IF k = key /\ k \notin DOMAIN ns THEN toAdd ELSE ns[k]]

\* Graph.node: the registry after node(key, toAdd)
node(ns, key, toAdd) ==
    [k \in DOMAIN ns \cup {key} |-> IF k = key THEN toAdd ELSE ns[k]]

\* Graph.setStart throws when the name is not registered
setStartThrows(ns, nodeName) == NodesGet(ns, nodeName) = NoNode

\* setStart mutated: the pointer is set before the registry is checked
setStartUnchecked(ns, cur, nodeName) == Current(nodeName, NodesGet(ns, nodeName))

\* Graph.setStart: the current pointer after setStart(nodeName)
setStart(ns, cur, nodeName) ==
    IF setStartThrows(ns, nodeName) THEN cur
    ELSE Current(nodeName, NodesGet(ns, nodeName))

----------------------------------------------------------------------------
(* Node results *)

\* what a node's next() does: returns nothing, throws (or rejects), or returns
\* a RunResult {context?, transition?}
Void == [kind |-> "void", patch |-> NoPatch, hasT |-> FALSE, t |-> ""]
Throw == [kind |-> "throw", patch |-> NoPatch, hasT |-> FALSE, t |-> ""]
Result(p, h, tr) == [kind |-> "result", patch |-> p, hasT |-> h, t |-> tr]
NoRes == [kind |-> "none", patch |-> NoPatch, hasT |-> FALSE, t |-> ""]

\* the patches a node returns in the model
NodePatches ==
    {NoPatch, FnPatch("bump"), FnPatch("boom"), StaticPatch(YMap), StaticPatch(XMap(NumVals))}

NodeResults ==
    {Void, Throw} \cup {Result(p, FALSE, "") : p \in NodePatches}
                  \cup {Result(p, TRUE, tr) : p \in NodePatches, tr \in DestNames}

\* JavaScript truthiness of RunResult.transition
Falsy(res) == ~res.hasT \/ res.t = ""

----------------------------------------------------------------------------
(* step and run *)

\* step mutated: the patch argument is not merged before the node is invoked
stepEnterNoMerge(ctx, cur, ts, patch) ==
    [threw |-> applyPatchThrows(ctx, patch),
     context |-> ctx,
     invoked |-> ~applyPatchThrows(ctx, patch) /\ cur.defined /\ cur.node # NoNode,
     trans |-> IF ~applyPatchThrows(ctx, patch) /\ cur.defined /\ cur.node # NoNode
               THEN transitionsArg(ts, cur).names ELSE {},
     missing |-> FALSE]

\* Graph.step up to its await: merges the patch argument, then invokes the
\* current node with the merged context and the outgoing names of the current
\* node.  No node is invoked when the pointer is undefined (the optional chain
\* yields undefined) or when its node is undefined (reading .next of it throws
\* before the arguments are evaluated).
stepEnter(ctx, cur, ts, patch) ==
    IF applyPatchThrows(ctx, patch)
    THEN [threw |-> TRUE, context |-> ctx, invoked |-> FALSE, trans |-> {},
          missing |-> FALSE]
    ELSE [threw |-> FALSE,
          context |-> applyPatch(ctx, patch),
          invoked |-> cur.defined /\ cur.node # NoNode,
          trans |-> IF cur.defined /\ cur.node # NoNode
                    THEN transitionsArg(ts, cur).names ELSE {},
          missing |-> cur.defined /\ cur.node # NoNode /\ transitionsArg(ts, cur).missing]

\* Stay mutated: a step that ends the run clears the pointer, so that the
\* graph is terminated until setStart is called again
StayTerminal(ctx, cur) == [context |-> ctx, current |-> Undefined, ret |-> "false"]

\* step returns false: the pointer is left where it is
Stay(ctx, cur) == [context |-> ctx, current |-> cur, ret |-> "false"]

\* step mutated: no try/catch around the node and the validation
stepAfterAwaitNoCatch(ctx, cur, ts, ns, res) ==
    IF res.kind = "throw" THEN [context |-> ctx, current |-> cur, ret |-> "rejected"]
    ELSE IF res.kind = "void" THEN Stay(ctx, cur)
    ELSE IF applyPatchThrows(ctx, res.patch)
         THEN [context |-> ctx, current |-> cur, ret |-> "rejected"]
    ELSE IF Falsy(res) THEN Stay(applyPatch(ctx, res.patch), cur)
    ELSE IF res.t \notin TransGet(ts, cur.key)
         THEN [context |-> applyPatch(ctx, res.patch), current |-> cur, ret |-> "rejected"]
    ELSE [context |-> applyPatch(ctx, res.patch),
          current |-> Current(res.t, NodesGet(ns, res.t)),
          ret |-> "true"]

\* step mutated: the transition is validated before the patch is merged
stepAfterAwaitValidateFirst(ctx, cur, ts, ns, res) ==
    IF res.kind \in {"throw", "void"} THEN Stay(ctx, cur)
    ELSE IF ~Falsy(res) /\ res.t \notin TransGet(ts, cur.key) THEN Stay(ctx, cur)
    ELSE IF applyPatchThrows(ctx, res.patch) THEN Stay(ctx, cur)
    ELSE IF Falsy(res) THEN Stay(applyPatch(ctx, res.patch), cur)
    ELSE [context |-> applyPatch(ctx, res.patch),
          current |-> Current(res.t, NodesGet(ns, res.t)),
          ret |-> "true"]

\* step mutated: a result without a transition follows the only outgoing edge
stepAfterAwaitFallThrough(ctx, cur, ts, ns, res) ==
    IF res.kind = "throw" THEN Stay(ctx, cur)
    ELSE IF Cardinality(TransGet(ts, cur.key)) = 1 /\ (res.kind = "void" \/ Falsy(res))
         THEN [context |-> IF applyPatchThrows(ctx, res.patch) THEN ctx
                           ELSE applyPatch(ctx, res.patch),
               current |-> Current(CHOOSE d \in TransGet(ts, cur.key) : TRUE,
                                   NodesGet(ns, CHOOSE d \in TransGet(ts, cur.key) : TRUE)),
               ret |-> "true"]
    ELSE IF res.kind = "void" THEN Stay(ctx, cur)
    ELSE IF applyPatchThrows(ctx, res.patch) THEN Stay(ctx, cur)
    ELSE IF Falsy(res) THEN Stay(applyPatch(ctx, res.patch), cur)
    ELSE IF res.t \notin TransGet(ts, cur.key) THEN Stay(applyPatch(ctx, res.patch), cur)
    ELSE [context |-> applyPatch(ctx, res.patch),
          current |-> Current(res.t, NodesGet(ns, res.t)),
          ret |-> "true"]

\* step mutated: any transition the node names is followed (no validation)
stepAfterAwaitNoValidation(ctx, cur, ts, ns, res) ==
    IF res.kind \in {"throw", "void"} THEN Stay(ctx, cur)
    ELSE IF applyPatchThrows(ctx, res.patch) THEN Stay(ctx, cur)
    ELSE IF Falsy(res) THEN Stay(applyPatch(ctx, res.patch), cur)
    ELSE [context |-> applyPatch(ctx, res.patch),
          current |-> Current(res.t, NodesGet(ns, res.t)),
          ret |-> "true"]

\* Graph.step after its await (the body of the try and the catch): the
\* context, the current pointer and the value step resolves to, given what the
\* node did.  A throw inside the try (the node's, a function patch's, the
\* invalid transition's) is caught and step returns false.
stepAfterAwait(ctx, cur, ts, ns, res) ==
    IF res.kind = "throw" THEN Stay(ctx, cur)
    ELSE IF res.kind = "void" THEN Stay(ctx, cur)
    ELSE IF applyPatchThrows(ctx, res.patch) THEN Stay(ctx, cur)
    ELSE IF Falsy(res) THEN Stay(applyPatch(ctx, res.patch), cur)
    ELSE IF res.t \notin TransGet(ts, cur.key) THEN Stay(applyPatch(ctx, res.patch), cur)
    ELSE [context |-> applyPatch(ctx, res.patch),
          current |-> Current(res.t, NodesGet(ns, res.t)),
          ret |-> "true"]


----------------------------------------------------------------------------
(* Calls in flight *)

\* A caller's record: the method it called and where that call stands, with
\* what the call observed, kept for the properties below.
\*   op      "none", "step" or "run"
\*   pc      "idle"; "awaitNode" (step awaits the node, line 141); "stepped"
\*           (run awaits the step's promise, line 121); "done" (the call's
\*           promise is settled and the caller has yet to resume)
\*   patch   the argument of the call
\*   before  _context when the current step was entered
\*   passed  the context handed to the node by the current step
\*   trans   the transitions handed to the node by the current step
\*   missing whether the node was handed undefined instead of an array
\*   at      _currentNode when the current step was entered
\*   invoked whether the current step invoked a node
\*   did     what the node of the last settled step did (see Did)
\*   hasT    whether it returned a transition
\*   t       the transition name it returned, "" when none
\*   ret     what the last settled step resolved to ("rejected": it rejected)
\*   result  the call's promise: "pending", "true"/"false" (step), "resolved"
\*           (run), "rejected"
\*   out     the context run resolved with
\*   merged  the context before the run call, merged with the run's patch
\*           once and with the patch of each node the run invoked, in order
\*   hasPrev whether the run has settled a step before the current one
\*   after   the context the previous node of the run was handed, with that
\*           node's patch merged in
Idle ==
    [op |-> "none", pc |-> "idle", patch |-> NoPatch, before |-> EmptyCtx,
     passed |-> EmptyCtx, trans |-> {}, missing |-> FALSE, at |-> Undefined,
     invoked |-> FALSE,
     did |-> "none", hasT |-> FALSE, t |-> "", ret |-> "none", result |-> "pending",
     out |-> EmptyCtx, merged |-> EmptyCtx, hasPrev |-> FALSE, after |-> EmptyCtx]

\* the caller holds no promise of the graph
Ready(c) == calls[c].pc = "idle"
\* no call is in flight and every result has been taken
Quiescent == \A c \in CallIds : Ready(c)

\* the mapping a node's returned patch is merged as ({} when there is no
\* patch, or when the function patch throws and nothing is merged)
MergedMap(ctx, res) ==
    IF res.kind = "result" /\ ~applyPatchThrows(ctx, res.patch)
    THEN PatchMap(ctx, res.patch) ELSE EmptyCtx

\* what a node did, given the transitions it was handed:
\*   "void"       returned nothing
\*   "throw"      threw, or its promise rejected
\*   "patchThrow" returned a function patch that throws when invoked
\*   "noTransition" returned a result without a transition
\*   "emptyName"  returned the transition ""
\*   "invalid"    returned a transition that is not among those handed to it
\*   "valid"      returned a transition that is among them
Did(res, trans) ==
    CASE res.kind = "void" -> "void"
      [] res.kind = "throw" -> "throw"
      [] res.kind = "result" /\ res.patch.kind = "fn" /\ FnThrows(res.patch.fn) -> "patchThrow"
      [] OTHER -> IF ~res.hasT THEN "noTransition"
                  ELSE IF res.t = "" THEN "emptyName"
                  ELSE IF res.t \in trans THEN "valid" ELSE "invalid"

\* what the awaited expression of line 141 settles as: undefined when the
\* pointer is undefined; a TypeError, thrown inside the try, when the pointer's
\* node is undefined (an unregistered name); else whatever the node does
Outcomes(call) ==
    IF ~call.at.defined THEN {Void}
    ELSE IF call.at.node = NoNode THEN {Throw}
    ELSE NodeResults

\* What the builder was asked, whatever the graph made of it:
\*   wired    the pairs <<l, r>> edge(l, r) was called with
\*   started  whether setStart was called with a name registered at the time
\*   repeat   whether the last operation was an edge(l, r) with a pair that
\*            edge had been called with before
\*   latest   for each name, the instance of the last node(name, instance)
\*   captured the instance that was the latest for the name the pointer is
\*            on when setStart or a step put the pointer there
\*   stepped  whether step or run has been called
NoHist ==
    [wired |-> {}, started |-> FALSE, repeat |-> FALSE,
     latest |-> [k \in RegNames |-> NoNode], captured |-> NoNode,
     stepped |-> FALSE]

\* the history once an operation other than edge was made
Later(h) == [h EXCEPT !.repeat = FALSE]
\* the history once step or run was called
Stepped(h) == [h EXCEPT !.repeat = FALSE, !.stepped = TRUE]

\* A direct call applyPatch(c, p): `done` once it was made, `out` what it
\* returned, `arg` the object c after the call, `fnArgs` the contexts the
\* function patch was invoked with, in order, `threw` whether it threw
NoProbe ==
    [c |-> EmptyCtx, p |-> NoPatch, done |-> FALSE, out |-> EmptyCtx,
     arg |-> EmptyCtx, fnArgs |-> <<>>, threw |-> FALSE]

\* the number of distinct edges in the table
EdgeCount(ts) ==
    Cardinality({e \in RegNames \X DestNames : e[2] \in TransGet(ts, e[1])})

----------------------------------------------------------------------------
(* Actions *)

Init ==
    /\ context = EmptyCtx
    /\ currentNode = Undefined
    /\ transitions = [k \in {} |-> {}]
    /\ nodes = [k \in {} |-> NoNode]
    /\ calls = [c \in CallIds |-> Idle]
    /\ threw = FALSE
    /\ hist = NoHist
    /\ probe = NoProbe

\* graph.node(key, toAdd)
Node(key, toAdd) ==
    /\ nodes' = node(nodes, key, toAdd)
    /\ threw' = FALSE
    /\ hist' = [Later(hist) EXCEPT !.latest[key] = toAdd]
    /\ UNCHANGED <<context, currentNode, transitions, calls, probe>>

\* graph.edge(l, r)
Edge(l, r) ==
    /\ transitions' = edge(transitions, l, r)
    /\ threw' = FALSE
    /\ hist' = [hist EXCEPT !.wired = @ \cup {<<l, r>>}, !.repeat = <<l, r>> \in hist.wired]
    /\ UNCHANGED <<context, currentNode, nodes, calls, probe>>

\* setStart mutated: designating the start node also empties the context
SetStartResetsContext(nodeName) ==
    /\ currentNode' = setStart(nodes, currentNode, nodeName)
    /\ threw' = setStartThrows(nodes, nodeName)
    /\ hist' = [Later(hist) EXCEPT
                   !.started = @ \/ hist.latest[nodeName] # NoNode,
                   !.captured = IF hist.latest[nodeName] # NoNode
                                THEN hist.latest[nodeName] ELSE @]
    /\ context' = IF setStartThrows(nodes, nodeName) THEN context ELSE EmptyCtx
    /\ UNCHANGED <<transitions, nodes, calls, probe>>

\* graph.setStart(nodeName)
SetStart(nodeName) ==
    /\ currentNode' = setStart(nodes, currentNode, nodeName)
    /\ threw' = setStartThrows(nodes, nodeName)
    /\ hist' = [Later(hist) EXCEPT
                   !.started = @ \/ hist.latest[nodeName] # NoNode,
                   !.captured = IF hist.latest[nodeName] # NoNode
                                THEN hist.latest[nodeName] ELSE @]
    /\ UNCHANGED <<context, transitions, nodes, calls, probe>>

\* the caller's record once a step has been entered
Entered(call, e, ctx0) ==
    [call EXCEPT !.pc = IF e.threw THEN "done" ELSE "awaitNode",
                 !.result = IF e.threw THEN "rejected" ELSE "pending",
                 !.before = ctx0,
                 !.passed = e.context,
                 !.trans = e.trans,
                 !.missing = e.missing,
                 !.at = currentNode,
                 !.invoked = e.invoked,
                 !.did = "none",
                 !.hasT = FALSE,
                 !.t = "",
                 !.ret = "none"]

\* graph.step(patch), up to the await of the node
StepCall(c, patch) ==
    /\ Ready(c)
    /\ LET e == stepEnter(context, currentNode, transitions, patch)
       IN /\ context' = e.context
          /\ calls' = [calls EXCEPT ![c] =
                 Entered([Idle EXCEPT !.op = "step", !.patch = patch], e, context)]
    /\ threw' = FALSE
    /\ hist' = Stepped(hist)
    /\ UNCHANGED <<currentNode, transitions, nodes, probe>>

\* graph.run(patch), up to the await of the first node: line 119 merges the
\* patch, line 121 calls step with the same patch
RunCall(c, patch) ==
    /\ Ready(c)
    /\ IF applyPatchThrows(context, patch)
       THEN /\ context' = context
            /\ calls' = [calls EXCEPT ![c] =
                   [Idle EXCEPT !.op = "run", !.patch = patch, !.pc = "done",
                                !.result = "rejected"]]
       ELSE LET first == applyPatch(context, patch)
                e == stepEnter(first, currentNode, transitions, patch)
            IN /\ context' = e.context
               /\ calls' = [calls EXCEPT ![c] =
                      Entered([Idle EXCEPT !.op = "run", !.patch = patch,
                                           !.merged = Spread(context, PatchMap(context, patch))],
                              e, first)]
    /\ threw' = FALSE
    /\ hist' = Stepped(hist)
    /\ UNCHANGED <<currentNode, transitions, nodes, probe>>

\* the awaited node settles and step runs to its return (lines 146-183)
NodeSettles(c, res) ==
    /\ calls[c].pc = "awaitNode"
    /\ res \in Outcomes(calls[c])
    /\ LET r == stepAfterAwait(context, currentNode, transitions, nodes, res)
           call == calls[c]
       IN /\ context' = r.context
          /\ currentNode' = r.current
          /\ calls' = [calls EXCEPT ![c] =
                 [call EXCEPT !.pc = IF call.op = "run" /\ r.ret # "rejected"
                                     THEN "stepped" ELSE "done",
                              !.did = Did(res, call.trans),
                              !.hasT = res.kind = "result" /\ res.hasT,
                              !.t = IF res.kind = "result" /\ res.hasT THEN res.t ELSE "",
                              !.ret = r.ret,
                              !.result = IF r.ret = "rejected" THEN "rejected"
                                         ELSE IF call.op = "run" THEN "pending"
                                         ELSE r.ret,
                              !.merged = Spread(call.merged, MergedMap(call.passed, res)),
                              !.after = Spread(call.passed, MergedMap(call.passed, res))]]
          /\ hist' = [Later(hist) EXCEPT
                         !.captured = IF r.ret = "true"
                                      THEN NodesGet(hist.latest, res.t) ELSE @]
    /\ threw' = FALSE
    /\ UNCHANGED <<transitions, nodes, probe>>

\* run's loop after a step resolved: `while (await this.step(context)) {}`
\* enters the next step with the same patch, or returns _context
RunLoop(c) ==
    /\ calls[c].pc = "stepped"
    /\ IF calls[c].ret = "true"
       THEN LET e == stepEnter(context, currentNode, transitions, calls[c].patch)
            IN /\ context' = e.context
               /\ calls' = [calls EXCEPT ![c] =
                      Entered([calls[c] EXCEPT !.hasPrev = TRUE], e, context)]
       ELSE /\ context' = context
            /\ calls' = [calls EXCEPT ![c] =
                   [calls[c] EXCEPT !.pc = "done", !.result = "resolved",
                                    !.out = context]]
    /\ threw' = FALSE
    /\ hist' = Later(hist)
    /\ UNCHANGED <<currentNode, transitions, nodes, probe>>

\* the caller's await of a settled promise returns: the caller has the result
\* and goes on to its next operation
Await(c) ==
    /\ calls[c].pc = "done"
    /\ calls' = [calls EXCEPT ![c] = Idle]
    /\ threw' = FALSE
    /\ hist' = Later(hist)
    /\ UNCHANGED <<context, currentNode, transitions, nodes, probe>>

\* the arguments the model gives step and run
CallPatches == {NoPatch, StaticPatch(XMap(1)), FnPatch("bump"), FnPatch("boom")}

\* Sequential use: one caller, which awaits each call before the next
\* operation on the graph.
Next ==
    \/ \E k \in RegNames, i \in Insts : Quiescent /\ Node(k, i)
    \/ \E l \in RegNames, r \in DestNames :
           /\ Quiescent
           /\ r \in TransGet(transitions, l) \/ EdgeCount(transitions) < MaxEdges
           /\ Edge(l, r)
    \/ \E n \in RegNames : Quiescent /\ SetStart(n)
    \/ \E c \in SeqCalls, p \in CallPatches : Quiescent /\ StepCall(c, p)
    \/ \E c \in SeqCalls, p \in CallPatches : Quiescent /\ RunCall(c, p)
    \/ \E c \in SeqCalls, res \in NodeResults : NodeSettles(c, res)
    \/ \E c \in SeqCalls : RunLoop(c)
    \/ \E c \in SeqCalls : Await(c)

Spec == Init /\ [][Next]_vars

\* Registration: a builder phase with one instance more than Insts, so that a
\* name can be registered again with another instance, followed by steps and
\* runs without patches; no builder call is made once step or run was called.
RegInsts == 1 .. (NumInst + 1)

RegResults ==
    {Void, Throw, Result(NoPatch, FALSE, "")}
        \cup {Result(NoPatch, TRUE, tr) : tr \in DestNames}

NextReg ==
    \/ \E k \in RegNames, i \in RegInsts :
           Quiescent /\ ~hist.stepped /\ Node(k, i)
    \/ \E l \in RegNames, r \in DestNames :
           /\ Quiescent /\ ~hist.stepped
           /\ r \in TransGet(transitions, l) \/ EdgeCount(transitions) < MaxEdges
           /\ Edge(l, r)
    \/ \E n \in RegNames : Quiescent /\ ~hist.stepped /\ SetStart(n)
    \/ \E c \in SeqCalls : Quiescent /\ StepCall(c, NoPatch)
    \/ \E c \in SeqCalls : Quiescent /\ RunCall(c, NoPatch)
    \/ \E c \in SeqCalls, res \in RegResults : NodeSettles(c, res)
    \/ \E c \in SeqCalls : RunLoop(c)
    \/ \E c \in SeqCalls : Await(c)

SpecReg == Init /\ [][NextReg]_vars

\* Overlapping use: after the builder phase two callers call step without
\* awaiting each other, so a step can be entered while another is suspended
\* at its await (line 141); each runs from its await to its return without
\* interruption, as a JavaScript job does.
NextOverlap ==
    \/ \E k \in RegNames, i \in Insts :
           Quiescent /\ ~hist.stepped /\ Node(k, i)
    \/ \E l \in RegNames, r \in DestNames :
           /\ Quiescent /\ ~hist.stepped
           /\ r \in TransGet(transitions, l) \/ EdgeCount(transitions) < MaxEdges
           /\ Edge(l, r)
    \/ \E n \in RegNames : Quiescent /\ ~hist.stepped /\ SetStart(n)
    \/ \E c \in CallIds : StepCall(c, NoPatch)
    \/ \E c \in CallIds, res \in RegResults : NodeSettles(c, res)
    \/ \E c \in CallIds : Await(c)

SpecOverlap == Init /\ [][NextOverlap]_vars

\* no call is in flight; a caller may still hold the result of its last call
NoneInFlight == \A c \in CallIds : calls[c].pc \in {"idle", "done"}

\* Calling again: after the builder phase two callers call step and run one
\* call at a time, in turns.  A caller that holds the result of its call (pc
\* "done") keeps it until the other caller's next call is under way, so a
\* state shows the call that ended last beside the call that follows it.
NextAgain ==
    \/ \E k \in RegNames, i \in Insts :
           Quiescent /\ ~hist.stepped /\ Node(k, i)
    \/ \E l \in RegNames, r \in DestNames :
           /\ Quiescent /\ ~hist.stepped
           /\ r \in TransGet(transitions, l) \/ EdgeCount(transitions) < MaxEdges
           /\ Edge(l, r)
    \/ \E n \in RegNames : Quiescent /\ ~hist.stepped /\ SetStart(n)
    \/ \E c \in CallIds : NoneInFlight /\ StepCall(c, NoPatch)
    \/ \E c \in CallIds : NoneInFlight /\ RunCall(c, NoPatch)
    \/ \E c \in CallIds, res \in RegResults : NodeSettles(c, res)
    \/ \E c \in CallIds : RunLoop(c)
    \/ \E c \in CallIds :
           /\ \A d \in CallIds \ {c} : calls[d].pc # "done"
           /\ Await(c)

SpecAgain == Init /\ [][NextAgain]_vars

\* applyPatch on its own: every context with every patch
ProbePatches ==
    {NoPatch} \cup {StaticPatch(m) : m \in Ctxs} \cup {FnPatch(f) : f \in FnNames}

InitPatch ==
    /\ context = EmptyCtx
    /\ currentNode = Undefined
    /\ transitions = [k \in {} |-> {}]
    /\ nodes = [k \in {} |-> NoNode]
    /\ calls = [c \in CallIds |-> Idle]
    /\ threw = FALSE
    /\ hist = NoHist
    /\ probe \in {[NoProbe EXCEPT !.c = c, !.p = p, !.arg = c] :
                      c \in Ctxs, p \in ProbePatches}

\* applyPatch(probe.c, probe.p)
ApplyPatch ==
    /\ ~probe.done
    /\ probe' = [probe EXCEPT
                    !.done = TRUE,
                    !.threw = applyPatchThrows(probe.c, probe.p),
                    !.out = IF applyPatchThrows(probe.c, probe.p) THEN EmptyCtx
                            ELSE applyPatch(probe.c, probe.p),
                    !.arg = applyPatchArg(probe.c, probe.p),
                    !.fnArgs = applyPatchFnArgs(probe.c, probe.p)]
    /\ UNCHANGED <<context, currentNode, transitions, nodes, calls, threw, hist>>

NextPatch == ApplyPatch

SpecPatch == InitPatch /\ [][NextPatch]_vars

----------------------------------------------------------------------------
(* Properties *)

\* the patch argument throws when it is merged
ArgThrows(call) == call.patch.kind = "fn" /\ FnThrows(call.patch.fn)

\* C1: during run(initialPatch), the context handed to the next node is the
\* context the previous node was handed with the previous node's own patch
\* merged in: a key the previous node patched is seen with the value it gave
\* it, also when the key is a key of initialPatch.
C1_NextNodeSeesPatch ==
    \A c \in CallIds :
        (calls[c].op = "run" /\ calls[c].pc = "awaitNode" /\ calls[c].hasPrev
            /\ calls[c].invoked)
        => calls[c].passed = calls[c].after

\* C2: run(initialPatch) merges initialPatch once before the first node is
\* invoked, and resolves with the context before the call merged with
\* initialPatch and then with the patch of each invoked node, in order.
C2_RunMergesInitialPatchOnce ==
    \A c \in CallIds :
        /\ (calls[c].op = "run" /\ calls[c].pc = "awaitNode" /\ ~calls[c].hasPrev
               /\ calls[c].invoked)
           => calls[c].passed = calls[c].merged
        /\ (calls[c].op = "run" /\ calls[c].result = "resolved")
           => calls[c].out = calls[c].merged

\* C3: when the node throws, returns a transition that is not in the current
\* node's outgoing set, or returns a function patch that throws, step does
\* not reject but resolves to false, and run resolves with the context.
C3_FailuresAreContained ==
    \A c \in CallIds :
        calls[c].did \in {"throw", "invalid", "patchThrow"}
        => /\ calls[c].ret = "false"
           /\ calls[c].result # "rejected"
           /\ calls[c].op = "step" => calls[c].result = "false"
           /\ (calls[c].op = "run" /\ calls[c].pc = "done")
              => (calls[c].result = "resolved" /\ calls[c].out = context)

\* a run has resolved after its node returned a function patch that throws
C3_Witness ==
    \E c \in CallIds :
        /\ calls[c].op = "run" /\ calls[c].pc = "done"
        /\ calls[c].did = "patchThrow"
        /\ calls[c].result = "resolved"

\* C4: once setStart has succeeded, run(initialPatch) resolves and never
\* rejects, whatever the initial patch (also a function patch that throws)
\* and whatever the nodes do.
C4_RunNeverRejects ==
    \A c \in CallIds :
        (calls[c].op = "run" /\ currentNode.defined) => calls[c].result # "rejected"

\* C5: when the current node returns a patch and a transition that is not in
\* its outgoing set, the patch is merged before the transition is validated:
\* the step reports not continuing, the context is the one the node was
\* handed with its patch merged, and the pointer is still the node's.
C5_PatchMergedBeforeValidation ==
    \A c \in CallIds :
        calls[c].did = "invalid"
        => /\ calls[c].ret = "false"
           /\ context = calls[c].after
           /\ currentNode = calls[c].at
           /\ calls[c].t # calls[c].at.key => currentNode.key # calls[c].t

\* a step has settled on an invalid transition whose patch changed the context
C5_Witness ==
    \E c \in CallIds :
        /\ calls[c].did = "invalid"
        /\ calls[c].pc = "done"
        /\ calls[c].after # calls[c].passed
        /\ context = calls[c].after

\* C6: when the current node's next() throws, the context after the step is
\* the context the node was handed, which is the context before the step
\* with the step's patch argument merged in; the pointer stays at the node
\* and run resolves with that context.
C6_ThrowKeepsContext ==
    \A c \in CallIds :
        calls[c].did = "throw"
        => /\ context = calls[c].passed
           /\ calls[c].passed =
                  Spread(calls[c].before, PatchMap(calls[c].before, calls[c].patch))
           /\ currentNode = calls[c].at
           /\ calls[c].ret = "false"
           /\ (calls[c].op = "run" /\ calls[c].pc = "done")
              => (calls[c].result = "resolved" /\ calls[c].out = calls[c].passed)

\* a run has resolved after a registered node threw, with a patch argument
\* that changed the context
C6_Witness ==
    \E c \in CallIds :
        /\ calls[c].did = "throw"
        /\ calls[c].op = "run" /\ calls[c].pc = "done"
        /\ calls[c].at.node # NoNode
        /\ calls[c].patch.kind # "none"
        /\ calls[c].passed # calls[c].before

\* C7: a transition target is checked against the registry: the current
\* pointer never names a node that is not registered, and a step whose node
\* returns a wired but unregistered name reports not continuing.
C7_PointerNamesRegisteredNode ==
    /\ currentNode.defined => currentNode.key \in DOMAIN nodes
    /\ \A c \in CallIds :
           (calls[c].did = "valid" /\ calls[c].t \notin DOMAIN nodes)
           => (calls[c].ret = "false" /\ currentNode = calls[c].at)

\* C8: setStart(name) with a name that is not registered when it is called
\* throws and changes nothing; with a registered name it sets the current
\* pointer to the name and its registered instance and does not throw.
C8_SetStart ==
    [][\A n \in RegNames :
           SetStart(n)
           => IF n \notin DOMAIN nodes
              THEN threw' /\ UNCHANGED <<currentNode, context, nodes, transitions>>
              ELSE /\ ~threw'
                   /\ currentNode' = Current(n, nodes[n])
                   /\ UNCHANGED <<context, nodes, transitions>>]_vars

\* setStart has just thrown on a graph that has a start node and a registered
\* node: the name it was given is not registered
C8_Witness ==
    /\ threw
    /\ currentNode.defined
    /\ DOMAIN nodes # {} /\ DOMAIN nodes # RegNames

Finished(call) == call.invoked /\ call.did \in {"void", "noTransition"}

\* C10: when the current node returns nothing, or a result without a
\* transition, the step resolves to false and the pointer stays at that node,
\* also when the node has outgoing edges; a run ends there: its next move is
\* to resolve, so it invokes no further node.
C10_NoTransitionEndsRun ==
    [][\A c \in CallIds :
           /\ (calls[c].pc = "awaitNode" /\ Finished(calls'[c]))
              => /\ calls'[c].ret = "false"
                 /\ currentNode' = calls[c].at
                 /\ currentNode' = currentNode
           /\ (calls[c].pc = "stepped" /\ Finished(calls[c]))
              => /\ calls'[c].pc = "done"
                 /\ calls'[c].result = "resolved"
                 /\ currentNode' = currentNode]_vars

\* a run has resolved at a node that has outgoing edges and returned nothing
C10_Witness ==
    \E c \in CallIds :
        /\ calls[c].op = "run" /\ calls[c].pc = "done"
        /\ calls[c].result = "resolved"
        /\ calls[c].invoked /\ calls[c].did = "void"
        /\ calls[c].trans # {}
        /\ currentNode = calls[c].at

\* the names edge was called with as destinations of l
Wired(l) == {r \in DestNames : <<l, r>> \in hist.wired}

\* C11: edge is idempotent and accumulates: whatever edge calls were made,
\* repeated or not, the outgoing set of every node holds exactly the
\* destinations edge was called with for it, so its size is the number of
\* distinct destinations, and with the pointer on a node the
\* availableTransitions accessor returns exactly those names.
C11_EdgeIdempotent ==
    /\ \A l \in RegNames :
           /\ TransGet(transitions, l) = Wired(l)
           /\ Cardinality(TransGet(transitions, l)) = Cardinality(Wired(l))
    /\ currentNode.defined =>
           availableTransitions(transitions, currentNode) = Wired(currentNode.key)

\* edge(A, x), edge(A, y), edge(A, x) with A current: two names are available
C11_Witness ==
    /\ hist.repeat
    /\ currentNode.defined
    /\ currentNode.key = "A"
    /\ Cardinality(availableTransitions(transitions, currentNode)) = 2

\* C12 (as claimed): the instance a step invokes is the instance most
\* recently registered under the name the pointer is on, for every sequence
\* of builder calls before the first step, a registration after
\* setStart(name) included.
C12_LastRegistrationWins ==
    \A c \in CallIds :
        (calls[c].pc = "awaitNode" /\ calls[c].invoked)
            => calls[c].at.node = hist.latest[calls[c].at.key]

\* C12 (amended): the instance a step invokes is the instance that was the
\* most recently registered under the name the pointer is on when setStart or
\* a transition put the pointer there: setStart captures the instance, and a
\* later node(name, ...) reaches the engine only through the next
\* setStart(name) or the next transition to name.
C12_LastRegistrationBeforeStartWins ==
    \A c \in CallIds :
        (calls[c].pc = "awaitNode" /\ calls[c].invoked)
            => calls[c].at.node = hist.captured

\* a name registered again with another instance after setStart: the step
\* invokes the instance that setStart captured
C12_Witness ==
    \E c \in CallIds :
        /\ calls[c].pc = "awaitNode"
        /\ calls[c].invoked
        /\ hist.latest[calls[c].at.key] = NumInst + 1
        /\ hist.captured = NumInst

\* C13: applyPatch(C, P) with a static partial mapping P returns a context
\* that has every key of P with P's value, every key of C that P lacks with
\* C's value, and no other key; with no patch it returns C; C is as it was.
C13_StaticPatchMerge ==
    probe.done =>
        /\ probe.p.kind = "static" =>
               /\ ~probe.threw
               /\ DOMAIN probe.out = DOMAIN probe.c \cup DOMAIN probe.p.map
               /\ \A k \in DOMAIN probe.p.map : probe.out[k] = probe.p.map[k]
               /\ \A k \in DOMAIN probe.c \ DOMAIN probe.p.map :
                      probe.out[k] = probe.c[k]
        /\ probe.p.kind = "none" => ~probe.threw /\ probe.out = probe.c
        /\ probe.p.kind \in {"static", "none"} => probe.arg = probe.c

\* a static patch that overwrites a key of the context with another value and
\* leaves another key alone
C13_Witness ==
    /\ probe.done
    /\ probe.p.kind = "static"
    /\ \E k \in DOMAIN probe.c \cap DOMAIN probe.p.map : probe.c[k] # probe.p.map[k]
    /\ DOMAIN probe.c \ DOMAIN probe.p.map # {}

\* C14: one merge of a function patch F into a context C invokes F exactly
\* once, with C as it was before the merge, and returns C shallow-merged with
\* F(C).
C14_FunctionPatchOnce ==
    (probe.done /\ probe.p.kind = "fn") =>
        /\ probe.fnArgs = <<probe.c>>
        /\ probe.arg = probe.c
        /\ probe.threw = FnThrows(probe.p.fn)
        /\ ~probe.threw =>
               probe.out = Spread(probe.c, FnApply(probe.p.fn, probe.c))

\* a function patch that reads the key it overwrites
C14_Witness ==
    /\ probe.done
    /\ probe.p.kind = "fn"
    /\ ~probe.threw
    /\ "x" \in DOMAIN probe.c
    /\ "y" \in DOMAIN probe.c
    /\ probe.out["x"] # probe.c["x"]

\* C15: the set of keys of the context never shrinks: whatever step or run is
\* called with and whatever patch a node returns, every key the context has
\* before a step of the engine it has after it.
C15_KeysNeverShrink == [][DOMAIN context \subseteq DOMAIN context']_vars

\* a step entered with both keys set has settled and the context has changed
C15_Witness ==
    \E c \in CallIds :
        /\ calls[c].pc = "done"
        /\ calls[c].did # "none"
        /\ DOMAIN calls[c].before = Keys
        /\ context # calls[c].before

\* C16: the current pointer is undefined in every state before the first
\* setStart with a registered name and defined in every state after it,
\* through node, edge, setStart (throwing or not), step and run; and it
\* changes only by a setStart with a registered name or by a step whose node
\* returned a transition that edge wired from the node the pointer was on.
C16_PointerDefinedOnceStarted ==
    [][/\ currentNode.defined <=> hist.started
       /\ currentNode'.defined <=> hist'.started
       /\ currentNode' # currentNode =>
              \/ \E n \in RegNames : SetStart(n) /\ hist.latest[n] # NoNode
              \/ \E c \in CallIds :
                     /\ calls[c].pc = "awaitNode"
                     /\ calls'[c].ret = "true"
                     /\ calls'[c].hasT
                     /\ calls'[c].t \in Wired(currentNode.key)]_vars

\* a setStart that threw after steps were made: the pointer is still defined
C16_Witness ==
    /\ threw
    /\ hist.stepped
    /\ currentNode.defined

\* C17: on every step that invokes a node, the transitions handed to next()
\* are exactly the destination names edge wired from the node the pointer is
\* on, and an array is handed over, the empty one when no edge was ever
\* registered from that node.
C17_TransitionsArgument ==
    \A c \in CallIds :
        calls[c].invoked =>
            /\ calls[c].trans = Wired(calls[c].at.key)
            /\ ~calls[c].missing

\* a node from which no edge was registered is invoked, in a graph with edges
C17_Witness ==
    \E c \in CallIds :
        /\ calls[c].invoked
        /\ calls[c].at.key \notin DOMAIN transitions
        /\ calls[c].trans = {}
        /\ hist.wired # {}

\* C18: step and run never modify the node registry or the transition table,
\* and node, edge and setStart never modify the context: a step of the engine
\* that is part of a call leaves the registry and the table as they were, and
\* a builder call leaves the context as it was.
C18_Frame ==
    [][IF calls' = calls
       THEN context' = context
       ELSE nodes' = nodes /\ transitions' = transitions]_vars

\* an edge call made after the context was patched
C18_Witness ==
    /\ hist.repeat
    /\ hist.stepped
    /\ context # EmptyCtx
    /\ currentNode.defined

\* C19: when step calls overlap, a returned transition is validated against
\* the outgoing set of the node the pointer is on when the awaited node
\* settles (the pointer is read again after the await), whatever node the
\* step invoked: the step moves the pointer exactly when the name was wired
\* from that node.  The witness is the unsafe interleaving: two steps invoke
\* the same node from one pointer position, the first moves the pointer, and
\* the second's transition, not among those handed to its node, is accepted
\* against the outgoing set of the node the first moved to.
C19_ValidatedAgainstPointerAfterAwait ==
    [][\A c \in CallIds :
          (/\ calls[c].pc = "awaitNode"
           /\ calls'[c].pc = "done"
           /\ calls'[c].did \in {"valid", "invalid"})
              => /\ calls'[c].ret = "true" <=> calls'[c].t \in Wired(currentNode.key)
                 /\ calls'[c].ret = "true" => currentNode'.key = calls'[c].t
                 /\ calls'[c].ret # "true" => currentNode' = currentNode]_vars

C19_Witness ==
    \E c, d \in CallIds :
        /\ c # d
        /\ calls[c].invoked /\ calls[d].invoked
        /\ calls[c].at = calls[d].at
        /\ calls[c].pc = "done" /\ calls[d].pc = "done"
        /\ calls[c].did = "valid" /\ calls[c].ret = "true"
        /\ calls[c].t # calls[c].at.key
        /\ calls[d].did = "invalid" /\ calls[d].ret = "true"
        /\ calls[d].t \in Wired(calls[c].t)

\* C20: step(patch) or run(patch) called before any setStart with a
\* registered name invokes no node and does not throw: the patch is merged
\* into the context, step resolves false, run resolves with the patched
\* context, and the pointer stays undefined.
C20_BeforeStart ==
    \A c \in CallIds :
        (calls[c].op # "none" /\ ~hist.started) =>
            /\ ~calls[c].invoked
            /\ ~currentNode.defined
            /\ calls[c].result # "rejected"
            /\ calls[c].pc = "done" =>
                   LET call == calls[c]
                       patched == IF call.op = "run" THEN call.merged
                                  ELSE Spread(call.before, PatchMap(call.before, call.patch))
                   IN /\ context = patched
                      /\ call.op = "step" => call.result = "false"
                      /\ call.op = "run" => call.result = "resolved" /\ call.out = patched

\* the last step of the caller's call resolved to false and the caller holds
\* the result
StoppedAt(c) ==
    /\ calls[c].pc = "done"
    /\ calls[c].ret = "false"

\* C21: the engine keeps no terminal flag: when a step has resolved to false,
\* whether it ended a run or was called on its own, the first step of the
\* next step() or run() call finds the pointer where that step left it, and
\* invokes the node there again if that step invoked it.
C21_NoTerminalFlag ==
    \A c, d \in CallIds :
        (/\ c # d
         /\ StoppedAt(c)
         /\ calls[d].pc = "awaitNode"
         /\ ~calls[d].hasPrev)
            => /\ calls[d].at = calls[c].at
               /\ calls[c].invoked => calls[d].invoked

\* a run moved the pointer and stopped; the run called next has invoked the
\* node it stopped at, which returned a wired transition this time, and the
\* pointer has advanced
C21_Witness ==
    \E c, d \in CallIds :
        /\ c # d
        /\ StoppedAt(c)
        /\ calls[c].op = "run" /\ calls[c].hasPrev /\ calls[c].invoked
        /\ calls[d].op = "run" /\ calls[d].pc = "stepped" /\ ~calls[d].hasPrev
        /\ calls[d].at = calls[c].at
        /\ calls[d].did = "valid" /\ calls[d].ret = "true"
        /\ currentNode.key # calls[c].at.key

====
